---- MODULE Spec2Model ----
(***************************************************************************)
(* Demo-Assistant frontend: the Layout, the five pages routed under it     *)
(* (DemoPage, ReviewPage, AnalyticsPage, HistoryPage, SettingsPage) and    *)
(* the AuthProvider, as a state machine over React state, the requests in  *)
(* flight and the pending debounce timers.                                 *)
(*                                                                         *)
(* A behaviour starts with one of the pages freshly mounted under Layout;  *)
(* its useState cells are the variables of                                 *)
(* the same name.  A handler runs atomically up to its first await; the    *)
(* effects its state updates trigger are part of the same step.  A value a *)
(* handler reads after an await is the one its render closed over, so it   *)
(* travels with the request (snapshot) or with the timer (closure).        *)
(***************************************************************************)
EXTENDS Integers, Sequences, FiniteSets, Bags, TLC

(* ------------------------------ bounds -------------------------------- *)
\* requests in flight at once
MaxInFlight == 2
\* debounce timers pending at once (the code keeps at most one)
MaxTimers == 2
\* entries of each kind the backend's history holds when HistoryPage mounts
MaxHistory == 2

(* --------------------------- program constants ------------------------ *)
DebounceMs == 500

Null == "null"
NoMetrics == [jira_project_key |-> "", sprint_id |-> "", start_date |-> "", end_date |-> ""]

\* what the backend holds
BackendProjects == << "P1", "P2" >>
ProjectKeys == { BackendProjects[i] : i \in 1..Len(BackendProjects) }
\* the days: d1 is a week ago, d2 is today; '' is a cleared DateInput
Dates == {"", "d1", "d2"}
\* what the user enters into the Start Date and the End Date inputs
DateInputs(field) == IF field = "end" THEN {"", "d2"} ELSE Dates
IsoSuffix == "T00:00:00.000Z"

(* ------------------------------ pure helpers -------------------------- *)
\* JavaScript truthiness of a string: '' is falsy
Truthy(s) == s # ""

\* new Date(d).toISOString(): throws a RangeError on an invalid date
ValidDate(d) == d \in Dates \ {""}
ToISO(d) == d \o IsoSuffix

\* isoString.split('T')[0]
SplitT(iso) == IF \E d \in Dates : ToISO(d) = iso
               THEN CHOOSE d \in Dates : ToISO(d) = iso
               ELSE iso

\* new Date(x) as a number, for the sort of the sprints; new Date(0) is the epoch
DateValue(iso) == CASE SplitT(iso) = "d1" -> 1
                    [] SplitT(iso) = "d2" -> 2
                    [] OTHER -> 0

\* parseInt of a sprint id as the Dropdown holds it (String(s.id))
ParseInt(s) == CASE s = "1" -> 1
                 [] s = "2" -> 2
                 [] s = "3" -> 3
                 [] s = "4" -> 4
                 [] OTHER -> 0

\* GET /jira/projects/{key}/sprints as the backend answers it
BackendSprints(p) ==
  IF p = "P1"
  THEN << [id |-> 1, state |-> "closed", start_date |-> ToISO("d1"), end_date |-> ToISO("d2")],
          [id |-> 3, state |-> "future", start_date |-> "", end_date |-> ""],
          [id |-> 2, state |-> "active", start_date |-> ToISO("d2"), end_date |-> ""] >>
  ELSE << [id |-> 4, state |-> "future", start_date |-> "", end_date |-> ""] >>

\* the ids of the backend's sprints, as the Dropdown holds them
SprintIds == {"1", "2", "3", "4"}

\* String(s.id)
IdString(n) == CASE n = 1 -> "1" [] n = 2 -> "2" [] n = 3 -> "3" [] n = 4 -> "4" [] OTHER -> ""

\* a.end_date || a.start_date || 0
SprintSortKey(s) == IF Truthy(s.end_date) THEN DateValue(s.end_date)
                    ELSE IF Truthy(s.start_date) THEN DateValue(s.start_date)
                    ELSE 0

IsShownSprint(s) == s.state = "closed" \/ s.state = "active"

RECURSIVE FilterShown(_)
FilterShown(s) ==
  IF s = << >> THEN << >>
  ELSE IF IsShownSprint(Head(s)) THEN << Head(s) >> \o FilterShown(Tail(s))
       ELSE FilterShown(Tail(s))

\* stable insertion of the pair x into pairs sorted by descending key k
RECURSIVE InsertDesc(_, _)
InsertDesc(x, s) ==
  IF s = << >> THEN << x >>
  ELSE IF Head(s).k >= x.k THEN << Head(s) >> \o InsertDesc(x, Tail(s))
       ELSE << x >> \o s

\* Array.prototype.sort((a, b) => b.k - a.k) on pairs [k, v]: stable, descending
RECURSIVE SortDesc(_)
SortDesc(s) ==
  IF s = << >> THEN << >>
  ELSE InsertDesc(s[Len(s)], SortDesc(SubSeq(s, 1, Len(s) - 1)))

\* loadSprints: filter closed and active, newest first
FilteredSprints(data) ==
  LET shown == FilterShown(data)
      pairs == [i \in 1..Len(shown) |-> [k |-> SprintSortKey(shown[i]), v |-> shown[i]]]
      sorted == SortDesc(pairs)
  IN [i \in 1..Len(sorted) |-> sorted[i].v]

RemoveAt(s, i) == SubSeq(s, 1, i - 1) \o SubSeq(s, i + 1, Len(s))

Range(s) == { s[i] : i \in 1..Len(s) }

(* -------------------------------- state ------------------------------- *)
VARIABLES
  page,             \* the route mounted under Layout
  settings,         \* Layout: settings.jira_connected
  srvJira,          \* backend: is a Jira account connected
  srvDemos,         \* backend: the demo history
  srvReviews,       \* backend: the self-review history
  net,              \* requests in flight (a bag)
  timers,           \* pending setTimeout callbacks with the closure of their render
  projects,         \* useState cells of the mounted page, by their names
  sprints,
  selectedProject,
  selectedSprint,
  dateRange,
  useSprintRange,
  metrics,
  isLoading,
  isGenerating,
  error,
  result,
  template,
  isLoadingTemplate,
  numSprints,
  sprintData,
  currentSprint,
  activeFilter,
  history,
  message,
  busy,             \* SettingsPage: isConnectingJira, isSavingScheduler, isSavingStorage, isRunningNow
  user,             \* AuthProvider
  loading,
  storage,          \* localStorage: token and user
  location,         \* the router's location: has it a token, has the effect run on it
  ev,               \* what the last step was (observer, read by no handler)
  deleted,          \* observer: items whose delete succeeded since the last reload
  burst,            \* observer: the timer requests since the last date change
  failed,           \* observer: kinds of request that failed since the last user action
  retried           \* observer: kinds issued again after a failure with no user action

layoutVars == << page, settings, srvJira >>
demoVars == << projects, sprints, selectedProject, selectedSprint, dateRange,
               useSprintRange, metrics, isLoading, isGenerating, error, result >>
reviewOnly == << template, isLoadingTemplate >>
analyticsOnly == << numSprints, sprintData, currentSprint >>
historyOnly == << activeFilter, history, deleted, srvDemos, srvReviews >>
settingsOnly == << message, busy >>
authVars == << user, loading, storage, location, failed, retried >>
\* what no DemoPage step touches
notDemo == << reviewOnly, analyticsOnly, historyOnly, settingsOnly, authVars >>
vars == << layoutVars, net, timers, demoVars, notDemo, ev, burst >>

(* ------------------------------ requests ------------------------------ *)
One(r) == SetToBag({r})
Room == BagCardinality(net) < MaxInFlight
InFlight(kind) == { r \in BagToSet(net) : r.kind = kind }

\* the observer's record of a step: t is "ok" or "fail" when the step handled the
\* response to request k, else "act"; m is the metrics a preview response carried
NoItem == [id |-> 0, type |-> "", created_at |-> ""]
Ev(t, k) == [t |-> t, k |-> k, m |-> NoMetrics, flag |-> FALSE, item |-> NoItem]

\* demoService.previewBySprint(projectKey, sprintId)
previewBySprint(projectKey, sprintId) ==
  [kind |-> "preview", path |-> "/demo/preview/sprint", jira_project_key |-> projectKey,
   sprint_id |-> sprintId, start_date |-> "", end_date |-> "", superseded |-> FALSE]

\* demoService.preview(projectKey, startDate, endDate)
preview(projectKey, startDate, endDate) ==
  [kind |-> "preview", path |-> "/demo/preview", jira_project_key |-> projectKey,
   sprint_id |-> "", start_date |-> ToISO(startDate), end_date |-> ToISO(endDate),
   superseded |-> FALSE]

\* the metrics the backend computes for a preview request: they name what they are of
MetricsOf(req) == [jira_project_key |-> req.jira_project_key, sprint_id |-> req.sprint_id,
                   start_date |-> req.start_date, end_date |-> req.end_date]

\* a preview in flight when a newer preview is issued is superseded: it is no
\* longer the latest request (observer field, read by no handler)
Superseded(r) == IF r.kind = "preview" THEN [r EXCEPT !.superseded = TRUE] ELSE r

RECURSIVE MapSuperseded(_)
MapSuperseded(b) ==
  IF b = EmptyBag THEN EmptyBag
  ELSE LET r == CHOOSE x \in BagToSet(b) : TRUE
       IN MapSuperseded(b (-) One(r)) (+) One(Superseded(r))

\* the observer of the debounce: on while a date change is the user's last
\* action on DemoPage; cancelled tells that a change found a timer pending, n
\* counts the previews the timers issued since the last change, start and end
\* are the dates the last of them carried
NoBurst == [on |-> FALSE, cancelled |-> FALSE, n |-> 0, start |-> "", end |-> ""]

(* ------------------------------- Layout ------------------------------- *)
\* the render a handler or a timer closed over
Closure(project, sprint, bySprint, range) ==
  [selectedProject |-> project, selectedSprint |-> sprint, useSprintRange |-> bySprint,
   start |-> range.start, end |-> range.end]

\* dateRange: useState({start: a week ago, end: today})
InitialDateRange == [start |-> "d1", end |-> "d2"]

\* the pages whose effect on settings.jira_connected calls loadProjects
PageHasProjects(p) == p \in {"demo", "review", "analytics"}

\* Layout.loadSettings resolves: setSettings(data); the pages' effect on
\* settings.jira_connected calls loadProjects when it turned true
loadSettingsOk(r) ==
  /\ r \in InFlight("settings")
  /\ settings' = [jira_connected |-> srvJira]
  /\ net' = IF PageHasProjects(page) /\ srvJira /\ ~settings.jira_connected
            THEN (net (-) One(r)) (+) One([kind |-> "projects"])
            ELSE net (-) One(r)
  /\ ev' = Ev("ok", "settings")
  /\ UNCHANGED << page, srvJira, timers, demoVars, notDemo, burst >>

\* Layout.loadSettings fails: console.error only
loadSettingsFail(r) ==
  /\ r \in InFlight("settings")
  /\ net' = net (-) One(r)
  /\ ev' = Ev("fail", "settings")
  /\ UNCHANGED << layoutVars, notDemo, burst, timers, demoVars >>

(* ------------------------------ DemoPage ------------------------------ *)
OnDemo == page = "demo" /\ settings.jira_connected

\* loadProjects resolves
loadProjectsOk(r) ==
  /\ page \in {"demo", "review"}
  /\ r \in InFlight("projects")
  /\ projects' = BackendProjects
  /\ net' = net (-) One(r)
  /\ ev' = Ev("ok", "projects")
  /\ UNCHANGED << layoutVars, notDemo, burst, timers, sprints, selectedProject, selectedSprint, dateRange,
                  useSprintRange, metrics, isLoading, isGenerating, error, result >>

loadProjectsFail(r) ==
  /\ r \in InFlight("projects")
  /\ error' = "Failed to load projects"
  /\ net' = net (-) One(r)
  /\ ev' = Ev("fail", "projects")
  /\ UNCHANGED << layoutVars, notDemo, burst, timers, projects, sprints, selectedProject, selectedSprint,
                  dateRange, useSprintRange, metrics, isLoading, isGenerating, result >>

\* Dropdown Project onChange = setSelectedProject; the effect on selectedProject
\* calls loadSprints and clears the sprint and the metrics
DemoSelectProject(p) ==
  /\ OnDemo /\ Room
  /\ p \in Range(projects) /\ p # selectedProject
  /\ selectedProject' = p
  /\ IF Truthy(p)
     THEN /\ net' = net (+) One([kind |-> "sprints", project |-> p])
          /\ selectedSprint' = ""
          /\ metrics' = NoMetrics
     ELSE UNCHANGED << net, selectedSprint, metrics >>
  /\ burst' = NoBurst
  /\ ev' = Ev("act", "")
  /\ UNCHANGED << layoutVars, notDemo, timers, projects, sprints, dateRange, useSprintRange,
                  isLoading, isGenerating, error, result >>

\* loadSprints resolves
loadSprintsOk(r) ==
  /\ r \in InFlight("sprints")
  /\ sprints' = FilteredSprints(BackendSprints(r.project))
  /\ net' = net (-) One(r)
  /\ ev' = Ev("ok", "sprints")
  /\ UNCHANGED << layoutVars, notDemo, burst, timers, projects, selectedProject, selectedSprint, dateRange,
                  useSprintRange, metrics, isLoading, isGenerating, error, result >>

\* variant: the catch empties the list
loadSprintsFailClears(r) ==
  /\ r \in InFlight("sprints")
  /\ sprints' = << >>
  /\ net' = net (-) One(r)
  /\ ev' = Ev("fail", "sprints")
  /\ UNCHANGED << layoutVars, notDemo, burst, timers, projects, selectedProject, selectedSprint,
                  dateRange, useSprintRange, metrics, isLoading, isGenerating, error, result >>

\* loadSprints fails: console.error only
loadSprintsFail(r) ==
  /\ r \in InFlight("sprints")
  /\ net' = net (-) One(r)
  /\ ev' = Ev("fail", "sprints")
  /\ UNCHANGED << layoutVars, notDemo, burst, timers, demoVars >>

\* loadPreview's early returns, on the render c it closed over
PreviewReturns(c) ==
  \/ ~Truthy(c.selectedProject)
  \/ (c.useSprintRange /\ ~Truthy(c.selectedSprint))
  \/ (~c.useSprintRange /\ (~Truthy(c.start) \/ ~Truthy(c.end)))

PreviewRequest(c) ==
  IF c.useSprintRange /\ Truthy(c.selectedSprint)
  THEN previewBySprint(c.selectedProject, c.selectedSprint)
  ELSE preview(c.selectedProject, c.start, c.end)

\* loadPreview up to its await, called from the render c
loadPreview(c) ==
  IF PreviewReturns(c)
  THEN UNCHANGED << net, isLoading, error >>
  ELSE /\ isLoading' = TRUE
       /\ error' = Null
       /\ net' = MapSuperseded(net) (+) One(PreviewRequest(c))

\* variant: the effect has no cleanup
ClearTimeoutMissing(ts) == ts

\* the timers left after the cleanup of the debounce effect
ClearTimeout(ts) == << >>

\* variant: the effect does not ask for the mode
DebounceEffectAnyMode(c) ==
  IF Truthy(c.selectedProject) /\ Truthy(c.start) /\ Truthy(c.end)
  THEN << [delay |-> DebounceMs, c |-> c] >>
  ELSE << >>

\* the effect on [dateRange.start, dateRange.end, useSprintRange]: its cleanup
\* clears the timer of the previous run, then it may set a new one
DebounceEffect(c) ==
  IF ~c.useSprintRange /\ Truthy(c.selectedProject) /\ Truthy(c.start) /\ Truthy(c.end)
  THEN << [delay |-> DebounceMs, c |-> c] >>
  ELSE << >>

\* handleSprintSelect, then the effect on selectedSprint (loadPreview) and the
\* debounce effect when the dates changed
handleSprintSelect(sprintId) ==
  LET found == { s \in Range(sprints) : IdString(s.id) = sprintId }
      sprint == CHOOSE s \in found : TRUE
      range == IF found # {} /\ Truthy(sprint.start_date) /\ Truthy(sprint.end_date)
               THEN [start |-> SplitT(sprint.start_date), end |-> SplitT(sprint.end_date)]
               ELSE dateRange
      c == Closure(selectedProject, sprintId, useSprintRange, range)
  IN /\ selectedSprint' = sprintId
     /\ dateRange' = range
     /\ timers' = IF range # dateRange THEN ClearTimeout(timers) \o DebounceEffect(c) ELSE timers
     /\ Len(timers') <= MaxTimers
     /\ IF sprintId # selectedSprint /\ Truthy(sprintId) /\ useSprintRange
        THEN loadPreview(c)
        ELSE UNCHANGED << net, isLoading, error >>

DemoSprintSelect(s) ==
  /\ OnDemo /\ Room
  /\ useSprintRange
  /\ s \in { IdString(x.id) : x \in Range(sprints) }
  /\ handleSprintSelect(s)
  /\ << selectedSprint', dateRange' >> # << selectedSprint, dateRange >>
  /\ burst' = NoBurst
  /\ ev' = [Ev("act", "sprintSelect") EXCEPT !.flag = dateRange' # dateRange]
  /\ UNCHANGED << layoutVars, notDemo, projects, sprints, selectedProject, useSprintRange, metrics,
                  isGenerating, result >>

\* variant: the toggle leaves the metrics of the other mode on display
DemoToggleModeKeepsMetrics ==
  /\ OnDemo
  /\ useSprintRange' = ~useSprintRange
  /\ timers' = ClearTimeout(timers)
                  \o DebounceEffect(Closure(selectedProject, selectedSprint, ~useSprintRange, dateRange))
  /\ Len(timers') <= MaxTimers
  /\ burst' = NoBurst
  /\ ev' = Ev("act", "")
  /\ UNCHANGED << layoutVars, notDemo, net, projects, sprints, selectedProject, selectedSprint,
                  dateRange, isLoading, isGenerating, error, result, metrics >>

\* the mode toggle button, then the debounce effect (useSprintRange changed)
DemoToggleMode ==
  /\ OnDemo
  /\ useSprintRange' = ~useSprintRange
  /\ metrics' = NoMetrics
  /\ timers' = ClearTimeout(timers)
                  \o DebounceEffect(Closure(selectedProject, selectedSprint, ~useSprintRange, dateRange))
  /\ Len(timers') <= MaxTimers
  /\ burst' = NoBurst
  /\ ev' = Ev("act", "")
  /\ UNCHANGED << layoutVars, notDemo, net, projects, sprints, selectedProject, selectedSprint,
                  dateRange, isLoading, isGenerating, error, result >>

\* DateInput onChange = setDateRange({...dateRange, start|end: val}), then the
\* debounce effect: clearTimeout of the pending timer, then a new timer
DemoSetDate(field, val) ==
  /\ OnDemo
  /\ ~useSprintRange
  /\ val \in DateInputs(field) /\ val # dateRange[field]
  /\ dateRange' = [dateRange EXCEPT ![field] = val]
  /\ timers' = ClearTimeout(timers)
                  \o DebounceEffect(Closure(selectedProject, selectedSprint, useSprintRange, dateRange'))
  /\ Len(timers') <= MaxTimers
  /\ burst' = IF Truthy(selectedProject)
               THEN [NoBurst EXCEPT !.on = TRUE,
                                    !.cancelled = \/ timers # << >>
                                                  \/ burst.on /\ burst.cancelled /\ burst.n = 0]
               ELSE NoBurst
  /\ ev' = Ev("act", "")
  /\ UNCHANGED << layoutVars, notDemo, net, projects, sprints, selectedProject, selectedSprint,
                  useSprintRange, metrics, isLoading, isGenerating, error, result >>

\* the setTimeout callback: loadPreview of the render that set the timer
DemoTimerFire(i) ==
  /\ page = "demo" /\ Room
  /\ i \in 1..Len(timers)
  /\ timers' = RemoveAt(timers, i)
  /\ loadPreview(timers[i].c)
  /\ burst' = IF burst.on /\ ~PreviewReturns(timers[i].c)
               THEN [burst EXCEPT !.n = burst.n + 1,
                                  !.start = PreviewRequest(timers[i].c).start_date,
                                  !.end = PreviewRequest(timers[i].c).end_date]
               ELSE burst
  /\ ev' = Ev("act", "")
  /\ UNCHANGED << layoutVars, notDemo, projects, sprints, selectedProject, selectedSprint, dateRange,
                  useSprintRange, metrics, isGenerating, result >>

\* the Refresh button's disabled attribute (Button adds loading)
RefreshDisabled ==
  \/ ~Truthy(selectedProject)
  \/ (useSprintRange /\ ~Truthy(selectedSprint))
  \/ isLoading

DemoRefresh ==
  /\ OnDemo /\ Room
  /\ ~RefreshDisabled
  /\ loadPreview(Closure(selectedProject, selectedSprint, useSprintRange, dateRange))
  /\ burst' = NoBurst
  /\ ev' = Ev("act", "")
  /\ UNCHANGED << layoutVars, notDemo, timers, projects, sprints, selectedProject, selectedSprint,
                  dateRange, useSprintRange, metrics, isGenerating, result >>

\* variant: only the response to the latest request is applied
PreviewAppliesIfLatest(r) == ~r.superseded

\* a response is applied whether or not a later request was answered before it
PreviewApplies(r) == TRUE

\* loadPreview resolves: setMetrics(data.metrics), finally setIsLoading(false)
loadPreviewOk(r) ==
  /\ r \in InFlight("preview")
  /\ metrics' = IF PreviewApplies(r) THEN MetricsOf(r) ELSE metrics
  /\ isLoading' = FALSE
  /\ net' = net (-) One(r)
  /\ ev' = [Ev("ok", "preview") EXCEPT !.m = MetricsOf(r), !.flag = r.superseded]
  /\ UNCHANGED << layoutVars, notDemo, burst, timers, projects, sprints, selectedProject, selectedSprint,
                  dateRange, useSprintRange, isGenerating, error, result >>

\* variant: the catch only logs, as loadSprints does
loadPreviewFailLogged(r) ==
  /\ r \in InFlight("preview")
  /\ isLoading' = FALSE
  /\ net' = net (-) One(r)
  /\ ev' = [Ev("fail", "preview") EXCEPT !.flag = r.superseded]
  /\ UNCHANGED << layoutVars, notDemo, burst, timers, projects, sprints, selectedProject, selectedSprint,
                  dateRange, useSprintRange, metrics, isGenerating, result, error >>

loadPreviewFail(r) ==
  /\ r \in InFlight("preview")
  /\ error' = "Failed to load metrics preview"
  /\ isLoading' = FALSE
  /\ net' = net (-) One(r)
  /\ ev' = [Ev("fail", "preview") EXCEPT !.flag = r.superseded]
  /\ UNCHANGED << layoutVars, notDemo, burst, timers, projects, sprints, selectedProject, selectedSprint,
                  dateRange, useSprintRange, metrics, isGenerating, result >>

\* variant: the button does not wait for the metrics
GenerateDisabledWithoutMetrics ==
  \/ ~Truthy(selectedProject)
  \/ (useSprintRange /\ ~Truthy(selectedSprint))
  \/ isGenerating

\* variant: the button is disabled only while generating
GenerateDisabledWhileLoading == isGenerating

\* the Generate button's disabled attribute (Button adds loading)
GenerateDisabled ==
  \/ ~Truthy(selectedProject)
  \/ (useSprintRange /\ ~Truthy(selectedSprint))
  \/ metrics = NoMetrics
  \/ isGenerating

\* variant: the sprint is sent whenever one is selected, whatever the mode
DemoRequestDataBySprint ==
  IF Truthy(selectedSprint)
  THEN [jira_project_key |-> selectedProject, sprint_id |-> ParseInt(selectedSprint)]
  ELSE [jira_project_key |-> selectedProject,
        date_range |-> [start |-> ToISO(dateRange.start), end |-> ToISO(dateRange.end)]]

\* handleGenerate's requestData
DemoRequestData ==
  IF useSprintRange /\ Truthy(selectedSprint)
  THEN [jira_project_key |-> selectedProject, sprint_id |-> ParseInt(selectedSprint)]
  ELSE [jira_project_key |-> selectedProject,
        date_range |-> [start |-> ToISO(dateRange.start), end |-> ToISO(dateRange.end)]]

\* handleGenerate up to its await; toISOString throws on an empty date, which the
\* catch turns into the error message without a request
handleGenerate ==
  /\ result' = Null
  /\ IF (useSprintRange /\ Truthy(selectedSprint))
        \/ (ValidDate(dateRange.start) /\ ValidDate(dateRange.end))
     THEN /\ isGenerating' = TRUE
          /\ error' = Null
          /\ net' = net (+) One([kind |-> "generate", page |-> "demo", body |-> DemoRequestData,
                                     hadMetrics |-> metrics # NoMetrics])
     ELSE /\ isGenerating' = FALSE
          /\ error' = "Failed to generate demo"
          /\ UNCHANGED net

DemoGenerate ==
  /\ OnDemo /\ Room
  /\ ~GenerateDisabled
  /\ handleGenerate
  /\ ev' = Ev("act", "")
  /\ UNCHANGED << layoutVars, notDemo, burst, timers, projects, sprints, selectedProject, selectedSprint,
                  dateRange, useSprintRange, metrics, isLoading >>

\* handleGenerate resolves: setResult(data)
handleGenerateOk(r) ==
  /\ r \in InFlight("generate") /\ r.page = "demo"
  /\ result' = "generated"
  /\ isGenerating' = FALSE
  /\ net' = net (-) One(r)
  /\ ev' = Ev("ok", "generate")
  /\ UNCHANGED << layoutVars, notDemo, burst, timers, projects, sprints, selectedProject, selectedSprint,
                  dateRange, useSprintRange, metrics, isLoading, error >>

\* handleGenerate fails: err.response?.data?.detail || 'Failed to generate demo'
handleGenerateFail(r, detail) ==
  /\ r \in InFlight("generate") /\ r.page = "demo"
  /\ error' = IF Truthy(detail) THEN detail ELSE "Failed to generate demo"
  /\ isGenerating' = FALSE
  /\ net' = net (-) One(r)
  /\ ev' = Ev("fail", "generate")
  /\ UNCHANGED << layoutVars, notDemo, burst, timers, projects, sprints, selectedProject, selectedSprint,
                  dateRange, useSprintRange, metrics, isLoading, result >>

\* err.response?.data?.detail: absent, or the backend's text
Details == {"", "detail from the backend"}

(* ----------------------------- ReviewPage ----------------------------- *)
OnReview == page = "review" /\ settings.jira_connected

notReview == << sprints, selectedSprint, useSprintRange, isLoading, timers, analyticsOnly,
                historyOnly, settingsOnly, authVars, burst >>

ReviewSelectProject(p) ==
  /\ OnReview
  /\ p \in Range(projects) /\ p # selectedProject
  /\ selectedProject' = p
  /\ ev' = Ev("act", "")
  /\ UNCHANGED << layoutVars, notReview, net, projects, dateRange, metrics, isGenerating,
                  error, result, reviewOnly >>

ReviewSetDate(field, val) ==
  /\ OnReview
  /\ val \in DateInputs(field) /\ val # dateRange[field]
  /\ dateRange' = [dateRange EXCEPT ![field] = val]
  /\ ev' = Ev("act", "")
  /\ UNCHANGED << layoutVars, notReview, net, projects, selectedProject, metrics,
                  isGenerating, error, result, reviewOnly >>

\* the textarea: the user clears the template or types one
ReviewSetTemplate(val) ==
  /\ OnReview
  /\ val # template
  /\ template' = val
  /\ ev' = Ev("act", "")
  /\ UNCHANGED << layoutVars, notReview, net, projects, selectedProject, dateRange, metrics,
                  isGenerating, error, result, isLoadingTemplate >>

\* the date_range both ReviewPage requests carry
ReviewDateRange == [start |-> ToISO(dateRange.start), end |-> ToISO(dateRange.end)]

\* the AI Recommend button's disabled attribute (Button adds loading)
RecommendDisabled == ~Truthy(selectedProject) \/ isLoadingTemplate

\* handleRecommendTemplate up to its await
handleRecommendTemplate ==
  IF ~Truthy(selectedProject)
  THEN /\ error' = "Please select a project first"
       /\ UNCHANGED << net, isLoadingTemplate >>
  ELSE IF ValidDate(dateRange.start) /\ ValidDate(dateRange.end)
  THEN /\ isLoadingTemplate' = TRUE
       /\ error' = Null
       /\ net' = net (+) One([kind |-> "recommend",
                              body |-> [jira_project_key |-> selectedProject,
                                        date_range |-> ReviewDateRange]])
  ELSE /\ isLoadingTemplate' = FALSE
       /\ error' = "Failed to get template recommendation"
       /\ UNCHANGED net

ReviewRecommend ==
  /\ OnReview /\ Room
  /\ ~RecommendDisabled
  /\ handleRecommendTemplate
  /\ ev' = Ev("act", "")
  /\ UNCHANGED << layoutVars, notReview, projects, selectedProject, dateRange, metrics,
                  isGenerating, result, template >>

handleRecommendTemplateOk(r) ==
  /\ r \in InFlight("recommend")
  /\ template' = "recommended"
  /\ metrics' = [jira_project_key |-> r.body.jira_project_key, sprint_id |-> "",
                 start_date |-> r.body.date_range.start, end_date |-> r.body.date_range.end]
  /\ isLoadingTemplate' = FALSE
  /\ net' = net (-) One(r)
  /\ ev' = Ev("ok", "recommend")
  /\ UNCHANGED << layoutVars, notReview, projects, selectedProject, dateRange, isGenerating,
                  error, result >>

handleRecommendTemplateFail(r) ==
  /\ r \in InFlight("recommend")
  /\ error' = "Failed to get template recommendation"
  /\ isLoadingTemplate' = FALSE
  /\ net' = net (-) One(r)
  /\ ev' = Ev("fail", "recommend")
  /\ UNCHANGED << layoutVars, notReview, projects, selectedProject, dateRange, metrics,
                  isGenerating, result, template >>

\* ReviewPage's Generate button: disabled={!selectedProject} (Button adds loading)
ReviewGenerateDisabled == ~Truthy(selectedProject) \/ isGenerating

\* ReviewPage.handleGenerate up to its await
reviewHandleGenerate ==
  IF ~Truthy(selectedProject)
  THEN /\ error' = "Please select a project first"
       /\ UNCHANGED << net, isGenerating, result >>
  ELSE /\ result' = Null
       /\ IF ValidDate(dateRange.start) /\ ValidDate(dateRange.end)
          THEN /\ isGenerating' = TRUE
               /\ error' = Null
               /\ net' = net (+) One([kind |-> "generate", page |-> "review",
                                      body |-> [jira_project_key |-> selectedProject,
                                                date_range |-> ReviewDateRange,
                                                template |-> IF Truthy(template)
                                                             THEN template ELSE Null],
                                      hadMetrics |-> metrics # NoMetrics])
          ELSE /\ isGenerating' = FALSE
               /\ error' = "Failed to generate self-review"
               /\ UNCHANGED net

ReviewGenerate ==
  /\ OnReview /\ Room
  /\ ~ReviewGenerateDisabled
  /\ reviewHandleGenerate
  /\ ev' = Ev("act", "")
  /\ UNCHANGED << layoutVars, notReview, projects, selectedProject, dateRange, metrics,
                  reviewOnly >>

reviewHandleGenerateOk(r) ==
  /\ r \in InFlight("generate") /\ r.page = "review"
  /\ result' = "generated"
  /\ isGenerating' = FALSE
  /\ net' = net (-) One(r)
  /\ ev' = Ev("ok", "generate")
  /\ UNCHANGED << layoutVars, notReview, projects, selectedProject, dateRange, metrics,
                  error, reviewOnly >>

reviewHandleGenerateFail(r) ==
  /\ r \in InFlight("generate") /\ r.page = "review"
  /\ error' = "Failed to generate self-review"
  /\ isGenerating' = FALSE
  /\ net' = net (-) One(r)
  /\ ev' = Ev("fail", "generate")
  /\ UNCHANGED << layoutVars, notReview, projects, selectedProject, dateRange, metrics,
                  result, reviewOnly >>

(* ---------------------------- AnalyticsPage --------------------------- *)
OnAnalytics == page = "analytics" /\ settings.jira_connected

notAnalytics == << sprints, selectedSprint, dateRange, useSprintRange, metrics, isGenerating,
                   result, timers, reviewOnly, historyOnly, settingsOnly, authVars, burst >>

NumSprintsOptions == {3, 5, 10}
NoSprintData == [project_key |-> "", num_sprints |-> 0]
NoCurrentSprint == [project_key |-> ""]

\* loadAnalytics up to its await: both requests of the Promise.all are sent
loadAnalytics(project, n) ==
  /\ isLoading' = TRUE
  /\ error' = Null
  /\ net' = net (+) One([kind |-> "analytics", project_key |-> project, num_sprints |-> n,
                         perf |-> "pending", current |-> "pending"])

\* AnalyticsPage.loadProjects resolves: the first project is selected, and the
\* effect on [selectedProject, numSprints] calls loadAnalytics
analyticsLoadProjectsOk(r) ==
  /\ page = "analytics"
  /\ r \in InFlight("projects")
  /\ projects' = BackendProjects
  /\ IF Len(BackendProjects) > 0 /\ BackendProjects[1] # selectedProject
     THEN /\ selectedProject' = BackendProjects[1]
          /\ isLoading' = TRUE
          /\ error' = Null
          /\ net' = (net (-) One(r))
                      (+) One([kind |-> "analytics", project_key |-> BackendProjects[1],
                               num_sprints |-> numSprints, perf |-> "pending",
                               current |-> "pending"])
     ELSE /\ net' = net (-) One(r)
          /\ UNCHANGED << selectedProject, isLoading, error >>
  /\ ev' = Ev("ok", "projects")
  /\ UNCHANGED << layoutVars, notAnalytics, analyticsOnly >>

AnalyticsSelectProject(p) ==
  /\ OnAnalytics /\ Room
  /\ p \in Range(projects) /\ p # selectedProject
  /\ selectedProject' = p
  /\ loadAnalytics(p, numSprints)
  /\ ev' = Ev("act", "")
  /\ UNCHANGED << layoutVars, notAnalytics, projects, analyticsOnly >>

AnalyticsSetNumSprints(n) ==
  /\ OnAnalytics /\ Room
  /\ n \in NumSprintsOptions /\ n # numSprints
  /\ numSprints' = n
  /\ IF Truthy(selectedProject)
     THEN loadAnalytics(selectedProject, n)
     ELSE UNCHANGED << net, isLoading, error >>
  /\ ev' = Ev("act", "")
  /\ UNCHANGED << layoutVars, notAnalytics, projects, selectedProject, sprintData,
                  currentSprint >>

\* the Refresh button: onClick={loadAnalytics} loading={isLoading}
AnalyticsRefresh ==
  /\ OnAnalytics /\ Room
  /\ ~isLoading
  /\ loadAnalytics(selectedProject, numSprints)
  /\ ev' = Ev("act", "")
  /\ UNCHANGED << layoutVars, notAnalytics, projects, selectedProject, analyticsOnly >>

\* Promise.all resolved: setSprintData(sprintPerf), setCurrentSprint(current)
AnalyticsResolved(r, currentFailed) ==
  /\ sprintData' = [project_key |-> r.project_key, num_sprints |-> r.num_sprints]
  /\ currentSprint' = IF currentFailed THEN NoCurrentSprint
                      ELSE [project_key |-> r.project_key]
  /\ isLoading' = FALSE
  /\ net' = net (-) One(r)
  /\ ev' = [Ev("ok", "analytics") EXCEPT !.flag = currentFailed]
  /\ UNCHANGED error

\* getMySprintPerformance resolves
sprintPerformanceOk(r) ==
  /\ r \in InFlight("analytics") /\ r.perf = "pending"
  /\ IF r.current = "pending"
     THEN /\ net' = (net (-) One(r)) (+) One([r EXCEPT !.perf = "ok"])
          /\ ev' = Ev("act", "")
          /\ UNCHANGED << sprintData, currentSprint, isLoading, error >>
     ELSE AnalyticsResolved(r, r.current = "null")
  /\ UNCHANGED << layoutVars, notAnalytics, projects, selectedProject, numSprints >>

\* variant: the failure is turned into null, as getMyCurrentSprint's is
sprintPerformanceFailCaught(r) ==
  /\ r \in InFlight("analytics") /\ r.perf = "pending"
  /\ isLoading' = FALSE
  /\ net' = net (-) One(r)
  /\ ev' = [Ev("fail", "analytics") EXCEPT !.flag = r.current = "null"]
  /\ UNCHANGED << layoutVars, notAnalytics, projects, selectedProject, analyticsOnly, error >>

\* getMySprintPerformance fails: Promise.all rejects, the catch sets the error
sprintPerformanceFail(r) ==
  /\ r \in InFlight("analytics") /\ r.perf = "pending"
  /\ error' = "Failed to load analytics data"
  /\ isLoading' = FALSE
  /\ net' = net (-) One(r)
  /\ ev' = [Ev("fail", "analytics") EXCEPT !.flag = r.current = "null"]
  /\ UNCHANGED << layoutVars, notAnalytics, projects, selectedProject, analyticsOnly >>

\* getMyCurrentSprint settles: .catch(() => null) turns a failure into null
currentSprintSettles(r, ok) ==
  /\ r \in InFlight("analytics") /\ r.current = "pending"
  /\ IF r.perf = "pending"
     THEN /\ net' = (net (-) One(r)) (+) One([r EXCEPT !.current = IF ok THEN "ok" ELSE "null"])
          /\ ev' = Ev("act", "")
          /\ UNCHANGED << sprintData, currentSprint, isLoading, error >>
     ELSE AnalyticsResolved(r, ~ok)
  /\ UNCHANGED << layoutVars, notAnalytics, projects, selectedProject, numSprints >>

(* ----------------------------- HistoryPage ---------------------------- *)
notHistory == << projects, sprints, selectedProject, selectedSprint, dateRange,
                 useSprintRange, metrics, isGenerating, result, timers, reviewOnly,
                 analyticsOnly, settingsOnly, authVars, burst >>

Pending == [st |-> "pending", data |-> << >>]

\* d => ({...d, type})
Tagged(items, type) ==
  [i \in 1..Len(items) |-> [id |-> items[i].id, type |-> type, created_at |-> items[i].created_at]]

\* variant: the sort is left out
CombinedUnsorted(demos, reviews) == Tagged(demos, "demo") \o Tagged(reviews, "self_review")

\* loadHistory's combined: demos then reviews, sorted by created_at, newest first
Combined(demos, reviews) ==
  LET all == Tagged(demos, "demo") \o Tagged(reviews, "self_review")
      pairs == [i \in 1..Len(all) |-> [k |-> DateValue(all[i].created_at), v |-> all[i]]]
      sorted == SortDesc(pairs)
  IN [i \in 1..Len(sorted) |-> sorted[i].v]

\* a delete in flight is no longer alone once another HistoryPage request is issued
NotAlone(r) == IF r.kind = "delete" THEN [r EXCEPT !.alone = FALSE] ELSE r

RECURSIVE MapNotAlone(_)
MapNotAlone(b) ==
  IF b = EmptyBag THEN EmptyBag
  ELSE LET r == CHOOSE x \in BagToSet(b) : TRUE
       IN MapNotAlone(b (-) One(r)) (+) One(NotAlone(r))

\* loadHistory up to its await: both requests of the Promise.all are sent
loadHistory ==
  /\ isLoading' = TRUE
  /\ error' = Null
  /\ net' = MapNotAlone(net) (+) One([kind |-> "history", demos |-> Pending, reviews |-> Pending])

\* the Refresh button
HistoryRefresh ==
  /\ page = "history" /\ Room
  /\ loadHistory
  /\ ev' = Ev("act", "")
  /\ UNCHANGED << layoutVars, notHistory, historyOnly >>

\* one request of loadHistory's Promise.all resolves; with both resolved the
\* combined list replaces history
historyPartOk(r, part) ==
  /\ r \in InFlight("history") /\ r[part].st = "pending"
  /\ LET data == IF part = "demos" THEN srvDemos ELSE srvReviews
         other == IF part = "demos" THEN r.reviews ELSE r.demos
     IN IF other.st = "pending"
        THEN /\ net' = (net (-) One(r)) (+) One([r EXCEPT ![part] = [st |-> "ok", data |-> data]])
             /\ ev' = Ev("act", "")
             /\ UNCHANGED << history, isLoading, deleted >>
        ELSE /\ history' = IF part = "demos" THEN Combined(data, other.data)
                           ELSE Combined(other.data, data)
             /\ isLoading' = FALSE
             /\ deleted' = {}
             /\ net' = net (-) One(r)
             /\ ev' = Ev("ok", "history")
  /\ UNCHANGED << layoutVars, notHistory, activeFilter, srvDemos, srvReviews, error >>

\* variant: Promise.allSettled, the list of the request that succeeded is shown
historyPartFailSettled(r, part) ==
  /\ r \in InFlight("history") /\ r[part].st = "pending"
  /\ LET other == IF part = "demos" THEN r.reviews ELSE r.demos
     IN history' = IF other.st = "pending" THEN history
                   ELSE IF part = "demos" THEN Combined(<< >>, other.data)
                   ELSE Combined(other.data, << >>)
  /\ error' = "Failed to load history"
  /\ isLoading' = FALSE
  /\ net' = net (-) One(r)
  /\ ev' = [Ev("fail", "history") EXCEPT !.flag = r.demos.st = "ok" \/ r.reviews.st = "ok"]
  /\ UNCHANGED << layoutVars, notHistory, activeFilter, deleted, srvDemos, srvReviews >>

\* one request of the Promise.all fails: the catch sets the error; the flag
\* of the observer tells that the other request had already succeeded
historyPartFail(r, part) ==
  /\ r \in InFlight("history") /\ r[part].st = "pending"
  /\ error' = "Failed to load history"
  /\ isLoading' = FALSE
  /\ net' = net (-) One(r)
  /\ ev' = [Ev("fail", "history") EXCEPT !.flag = r.demos.st = "ok" \/ r.reviews.st = "ok"]
  /\ UNCHANGED << layoutVars, notHistory, historyOnly >>

HistorySetFilter(f) ==
  /\ page = "history"
  /\ f \in {"all", "demos", "reviews"} /\ f # activeFilter
  /\ activeFilter' = f
  /\ ev' = Ev("act", "")
  /\ UNCHANGED << layoutVars, notHistory, net, history, deleted, srvDemos, srvReviews,
                  isLoading, error >>

FilterTest(item, filter) ==
  CASE filter = "all" -> TRUE
    [] filter = "demos" -> item.type = "demo"
    [] filter = "reviews" -> item.type = "self_review"
    [] OTHER -> TRUE

filteredHistory ==
  LET Test(item) == FilterTest(item, activeFilter) IN SelectSeq(history, Test)

\* the service handleDelete calls: demoService.delete or reviewService.delete
DeletePath(item) == IF item.type = "demo" THEN "/demo/" ELSE "/self-review/"

\* variant: the filter compares the id only
WithoutId(list, item) ==
  LET Test(h) == h.id # item.id IN SelectSeq(list, Test)

\* history.filter((h) => h.id !== item.id || h.type !== item.type)
WithoutItem(list, item) ==
  LET Test(h) == h.id # item.id \/ h.type # item.type IN SelectSeq(list, Test)

\* handleDelete up to its await; the list is shown only when not loading
handleDelete(item, confirmed) ==
  /\ page = "history"
  /\ ~isLoading
  /\ item \in Range(filteredHistory)
  /\ IF confirmed
     THEN /\ Room
          /\ net' = MapNotAlone(net)
                      (+) One([kind |-> "delete", item |-> item, path |-> DeletePath(item),
                               id |-> item.id, snapshot |-> history,
                               alone |-> InFlight("history") \cup InFlight("delete") = {}])
          /\ ev' = Ev("act", "")
     ELSE /\ UNCHANGED net
          /\ ev' = Ev("act", "declined")
  /\ UNCHANGED << layoutVars, notHistory, historyOnly, isLoading, error >>

\* what the backend holds after DELETE path/id
ServerDelete(list, id) == LET Test(x) == x.id # id IN SelectSeq(list, Test)

\* the delete resolves: setHistory(history.filter(...)) on the history of the
\* render that handled the click
handleDeleteOk(r) ==
  /\ r \in InFlight("delete")
  /\ history' = WithoutItem(r.snapshot, r.item)
  /\ srvDemos' = IF r.path = "/demo/" THEN ServerDelete(srvDemos, r.id) ELSE srvDemos
  /\ srvReviews' = IF r.path = "/self-review/" THEN ServerDelete(srvReviews, r.id) ELSE srvReviews
  /\ deleted' = deleted \cup {[id |-> r.item.id, type |-> r.item.type]}
  /\ net' = net (-) One(r)
  /\ ev' = [Ev("ok", "delete") EXCEPT !.flag = r.alone, !.item = r.item]
  /\ UNCHANGED << layoutVars, notHistory, activeFilter, isLoading, error >>

handleDeleteFail(r) ==
  /\ r \in InFlight("delete")
  /\ error' = "Failed to delete item"
  /\ net' = net (-) One(r)
  /\ ev' = [Ev("fail", "delete") EXCEPT !.flag = r.alone, !.item = r.item]
  /\ UNCHANGED << layoutVars, notHistory, historyOnly, isLoading >>

(* ----------------------------- SettingsPage --------------------------- *)
notSettings == << projects, sprints, selectedProject, selectedSprint, dateRange,
                  useSprintRange, metrics, isLoading, isGenerating, error, result, timers,
                  reviewOnly, analyticsOnly, historyOnly, authVars, burst >>

NoMessage == [type |-> "", text |-> ""]

\* the methods of the settingsService object
SettingsServiceMethods == {"getSettings", "updateScheduler", "updateStorage", "updateProfile",
                           "getScheduledJobs", "disconnectJira"}

\* the service method each handler calls
ServiceCall(op) ==
  CASE op = "connect" -> [service |-> "jiraService", method |-> "connect"]
    [] op = "disconnect" -> [service |-> "settingsService", method |-> "disconnectJira"]
    [] op = "scheduler" -> [service |-> "settingsService", method |-> "updateScheduler"]
    [] op = "runNow" -> [service |-> "settingsService", method |-> "runSchedulerNow"]
    [] op = "storage" -> [service |-> "settingsService", method |-> "updateStorage"]

\* calling a method the object does not have throws a TypeError before any request
IsFunction(call) == call.service = "jiraService" \/ call.method \in SettingsServiceMethods

SuccessText(op) ==
  CASE op = "connect" -> "Jira connected successfully!"
    [] op = "disconnect" -> "Jira disconnected"
    [] op = "scheduler" -> "Scheduler settings saved! Cache expires in N hours."
    [] op = "runNow" -> "Scraper completed! Data cached in MongoDB."
    [] op = "storage" -> "Storage settings saved!"

\* the catch of each handler; connect and runNow prefer err.response?.data?.detail
FailText(op, detail) ==
  CASE op = "connect" -> IF Truthy(detail) THEN detail ELSE "Failed to connect Jira"
    [] op = "disconnect" -> "Failed to disconnect Jira"
    [] op = "scheduler" -> "Failed to save scheduler settings"
    [] op = "runNow" -> IF Truthy(detail) THEN detail ELSE "Failed to run scraper"
    [] op = "storage" -> "Failed to save storage settings"

\* is the control of the handler shown and enabled
SettingsEnabled(op) ==
  CASE op = "connect" -> ~settings.jira_connected /\ op \notin busy
    [] op = "disconnect" -> settings.jira_connected
    [] op = "runNow" -> settings.jira_connected /\ op \notin busy
    [] OTHER -> op \notin busy

\* handleConnectJira, handleDisconnectJira, handleSaveScheduler, handleRunNow and
\* handleSaveStorage up to their await
SettingsHandler(op) ==
  /\ page = "settings" /\ Room
  /\ SettingsEnabled(op)
  /\ IF IsFunction(ServiceCall(op))
     THEN /\ net' = net (+) One([kind |-> "settingsOp", op |-> op])
          /\ busy' = IF op = "disconnect" THEN busy ELSE busy \cup {op}
          /\ message' = IF op = "disconnect" THEN message ELSE NoMessage
     ELSE /\ message' = [type |-> "error", text |-> FailText(op, "")]
          /\ UNCHANGED << net, busy >>
  /\ ev' = Ev("act", op)
  /\ UNCHANGED << layoutVars, notSettings >>

\* the handler's call resolves; all but handleRunNow then call refreshSettings
SettingsHandlerOk(r) ==
  /\ r \in InFlight("settingsOp")
  /\ message' = [type |-> "success", text |-> SuccessText(r.op)]
  /\ busy' = busy \ {r.op}
  /\ srvJira' = CASE r.op = "connect" -> TRUE
                  [] r.op = "disconnect" -> FALSE
                  [] OTHER -> srvJira
  /\ net' = IF r.op = "runNow" THEN net (-) One(r)
            ELSE (net (-) One(r)) (+) One([kind |-> "settings"])
  /\ ev' = Ev("ok", r.op)
  /\ UNCHANGED << page, settings, notSettings >>

SettingsHandlerFail(r, detail) ==
  /\ r \in InFlight("settingsOp")
  /\ message' = [type |-> "error", text |-> FailText(r.op, detail)]
  /\ busy' = busy \ {r.op}
  /\ net' = net (-) One(r)
  /\ ev' = Ev("fail", r.op)
  /\ UNCHANGED << layoutVars, notSettings >>

SettingsOps == {"connect", "disconnect", "scheduler", "runNow", "storage"}

(* ----------------------------- AuthProvider --------------------------- *)
\* what no AuthProvider step touches
notAuth == << layoutVars, timers, demoVars, reviewOnly, analyticsOnly, historyOnly,
              settingsOnly, ev, burst >>

NoUser == [id |-> "", v |-> 0]
SavedUser == [id |-> "u", v |-> 1]
\* GET /auth/me as the backend answers it
ServerUser == [id |-> "u", v |-> 2]
NoAuth == [token |-> "", user |-> NoUser]

\* authService.getAuth(): the token and the user of localStorage
getAuth == [token |-> storage.token, user |-> storage.user]

\* fetchUser up to its await; a current-user request issued after one failed,
\* with no user action in between, is a retry
fetchUser ==
  /\ Room
  /\ net' = net (+) One([kind |-> "me"])
  /\ retried' = IF "me" \in failed THEN retried \cup {"me"} ELSE retried

\* the effect on [location]
AuthLocationEffect ==
  /\ location.pending
  /\ location' = [location EXCEPT !.pending = FALSE]
  /\ IF location.token
     THEN /\ storage' = [storage EXCEPT !.token = "tok"]
          /\ fetchUser
          /\ UNCHANGED << user, loading >>
     ELSE /\ IF Truthy(getAuth.token) /\ getAuth.user # NoUser
             THEN /\ user' = getAuth.user
                  /\ fetchUser
             ELSE UNCHANGED << user, net, retried >>
          /\ loading' = FALSE
          /\ UNCHANGED storage
  /\ UNCHANGED << notAuth, failed >>

\* fetchUser resolves: setUser(userData), the user is saved, finally setLoading(false)
fetchUserOk(r) ==
  /\ r \in InFlight("me")
  /\ user' = ServerUser
  /\ storage' = [storage EXCEPT !.user = ServerUser]
  /\ loading' = FALSE
  /\ net' = net (-) One(r)
  /\ UNCHANGED << notAuth, location, failed, retried >>

\* logout(): authService.logout() is called and not awaited, it posts
\* /auth/logout; setUser(null); navigate('/login')
logout ==
  /\ user' = NoUser
  /\ location' = [path |-> "/login", token |-> FALSE, pending |-> TRUE]

\* fetchUser fails: the catch calls logout(), finally setLoading(false)
fetchUserFail(r) ==
  /\ r \in InFlight("me")
  /\ logout
  /\ net' = (net (-) One(r)) (+) One([kind |-> "logout"])
  /\ loading' = FALSE
  /\ failed' = failed \cup {"me"}
  /\ UNCHANGED << notAuth, storage, retried >>

\* authService.logout after its await: whether the post succeeded or failed, the
\* token and the user are removed from localStorage
logoutSettles(r) ==
  /\ r \in InFlight("logout")
  /\ storage' = NoAuth
  /\ net' = net (-) One(r)
  /\ UNCHANGED << notAuth, user, loading, location, failed, retried >>

\* the user follows a link: the location changes
AuthNavigate(path) ==
  /\ ~location.pending
  /\ location' = [path |-> path, token |-> FALSE, pending |-> TRUE]
  /\ failed' = {}
  /\ UNCHANGED << notAuth, net, user, loading, storage, retried >>

\* the Sidebar's logout button, shown to a signed-in user
AuthLogoutClick ==
  /\ ~location.pending /\ Room
  /\ user # NoUser
  /\ logout
  /\ net' = net (+) One([kind |-> "logout"])
  /\ failed' = {}
  /\ UNCHANGED << notAuth, loading, storage, retried >>

\* what the backend holds of the history when HistoryPage mounts
InitialDemos == << [id |-> 1, created_at |-> ToISO("d1")] >>
InitialReviews == << [id |-> 1, created_at |-> ToISO("d2")] >>

(* -------------------------------- mounting ---------------------------- *)
Pages == {"demo", "review", "analytics", "history", "settings"}

\* the requests in flight once Layout and page p have mounted: Layout's effect
\* calls loadSettings, HistoryPage's calls loadHistory; the pages that load the
\* projects wait for settings.jira_connected
MountRequests(p) ==
  One([kind |-> "settings"])
    (+) (IF p = "history"
         THEN One([kind |-> "history", demos |-> Pending, reviews |-> Pending])
         ELSE EmptyBag)

\* useState initial values of the page p
Fresh(p) ==
  [projects |-> << >>,
   sprints |-> << >>,
   selectedProject |-> "",
   selectedSprint |-> "",
   dateRange |-> InitialDateRange,
   useSprintRange |-> TRUE,
   metrics |-> NoMetrics,
   isLoading |-> (p = "history"),
   isGenerating |-> FALSE,
   error |-> Null,
   result |-> Null,
   template |-> "",
   isLoadingTemplate |-> FALSE,
   numSprints |-> 5,
   sprintData |-> NoSprintData,
   currentSprint |-> NoCurrentSprint,
   activeFilter |-> "all",
   history |-> << >>,
   message |-> NoMessage,
   busy |-> {},
   timers |-> << >>]

(* ----------------------------- specification -------------------------- *)

Init ==
  /\ page \in Pages
  /\ projects = Fresh(page).projects
  /\ sprints = Fresh(page).sprints
  /\ selectedProject = Fresh(page).selectedProject
  /\ selectedSprint = Fresh(page).selectedSprint
  /\ dateRange = Fresh(page).dateRange
  /\ useSprintRange = Fresh(page).useSprintRange
  /\ metrics = Fresh(page).metrics
  /\ isLoading = Fresh(page).isLoading
  /\ isGenerating = Fresh(page).isGenerating
  /\ error = Fresh(page).error
  /\ result = Fresh(page).result
  /\ template = Fresh(page).template
  /\ isLoadingTemplate = Fresh(page).isLoadingTemplate
  /\ numSprints = Fresh(page).numSprints
  /\ sprintData = Fresh(page).sprintData
  /\ currentSprint = Fresh(page).currentSprint
  /\ activeFilter = Fresh(page).activeFilter
  /\ history = Fresh(page).history
  /\ message = Fresh(page).message
  /\ busy = Fresh(page).busy
  /\ timers = Fresh(page).timers
  /\ settings = [jira_connected |-> FALSE]
  /\ srvJira = TRUE
  /\ srvDemos = InitialDemos
  /\ srvReviews = InitialReviews
  /\ net = MountRequests(page)
  /\ ev = Ev("act", "")
  /\ burst = NoBurst
  /\ deleted = {}
  /\ user = SavedUser
  /\ loading = FALSE
  /\ storage = [token |-> "tok", user |-> SavedUser]
  /\ location = [path |-> "/", token |-> FALSE, pending |-> FALSE]
  /\ failed = {}
  /\ retried = {}

Next ==
  \/ \E r \in BagToSet(net) : loadSettingsOk(r)
  \/ \E r \in BagToSet(net) : loadSettingsFail(r)
  \/ \E r \in BagToSet(net) : loadProjectsOk(r)
  \/ \E r \in BagToSet(net) : loadProjectsFail(r)
  \/ \E r \in BagToSet(net) : loadSprintsOk(r)
  \/ \E r \in BagToSet(net) : loadSprintsFail(r)
  \/ \E r \in BagToSet(net) : loadPreviewOk(r)
  \/ \E r \in BagToSet(net) : loadPreviewFail(r)
  \/ \E r \in BagToSet(net) : handleGenerateOk(r)
  \/ \E r \in BagToSet(net), d \in Details : handleGenerateFail(r, d)
  \/ \E r \in BagToSet(net) : handleRecommendTemplateOk(r)
  \/ \E r \in BagToSet(net) : handleRecommendTemplateFail(r)
  \/ \E r \in BagToSet(net) : reviewHandleGenerateOk(r)
  \/ \E r \in BagToSet(net) : reviewHandleGenerateFail(r)
  \/ \E r \in BagToSet(net) : analyticsLoadProjectsOk(r)
  \/ \E r \in BagToSet(net) : sprintPerformanceOk(r)
  \/ \E r \in BagToSet(net) : sprintPerformanceFail(r)
  \/ \E r \in BagToSet(net), ok \in BOOLEAN : currentSprintSettles(r, ok)
  \/ \E r \in BagToSet(net), part \in {"demos", "reviews"} : historyPartOk(r, part)
  \/ \E r \in BagToSet(net), part \in {"demos", "reviews"} : historyPartFail(r, part)
  \/ \E r \in BagToSet(net) : handleDeleteOk(r)
  \/ \E r \in BagToSet(net) : handleDeleteFail(r)
  \/ \E r \in BagToSet(net) : SettingsHandlerOk(r)
  \/ \E r \in BagToSet(net), d \in Details : SettingsHandlerFail(r, d)
  \/ \E p \in ProjectKeys : DemoSelectProject(p)
  \/ \E s \in SprintIds : DemoSprintSelect(s)
  \/ DemoToggleMode
  \/ \E f \in {"start", "end"} : \E v \in DateInputs(f) : DemoSetDate(f, v)
  \/ \E i \in 1..Len(timers) : DemoTimerFire(i)
  \/ DemoRefresh
  \/ DemoGenerate
  \/ \E p \in ProjectKeys : ReviewSelectProject(p)
  \/ \E f \in {"start", "end"} : \E v \in DateInputs(f) : ReviewSetDate(f, v)
  \/ \E v \in {"", "typed"} : ReviewSetTemplate(v)
  \/ ReviewRecommend
  \/ ReviewGenerate
  \/ \E p \in ProjectKeys : AnalyticsSelectProject(p)
  \/ \E n \in NumSprintsOptions : AnalyticsSetNumSprints(n)
  \/ AnalyticsRefresh
  \/ HistoryRefresh
  \/ \E f \in {"all", "demos", "reviews"} : HistorySetFilter(f)
  \/ \E i \in 1..Len(history), c \in BOOLEAN : handleDelete(history[i], c)
  \/ \E op \in SettingsOps : SettingsHandler(op)

Spec == Init /\ [][Next]_vars

\* the AuthProvider alone, from its mount: the page under it stays as mounted
InitAuth ==
  /\ page = "demo"
  /\ projects = Fresh(page).projects
  /\ sprints = Fresh(page).sprints
  /\ selectedProject = Fresh(page).selectedProject
  /\ selectedSprint = Fresh(page).selectedSprint
  /\ dateRange = Fresh(page).dateRange
  /\ useSprintRange = Fresh(page).useSprintRange
  /\ metrics = Fresh(page).metrics
  /\ isLoading = Fresh(page).isLoading
  /\ isGenerating = Fresh(page).isGenerating
  /\ error = Fresh(page).error
  /\ result = Fresh(page).result
  /\ template = Fresh(page).template
  /\ isLoadingTemplate = Fresh(page).isLoadingTemplate
  /\ numSprints = Fresh(page).numSprints
  /\ sprintData = Fresh(page).sprintData
  /\ currentSprint = Fresh(page).currentSprint
  /\ activeFilter = Fresh(page).activeFilter
  /\ history = Fresh(page).history
  /\ message = Fresh(page).message
  /\ busy = Fresh(page).busy
  /\ timers = Fresh(page).timers
  /\ settings = [jira_connected |-> FALSE]
  /\ srvJira = TRUE
  /\ srvDemos = InitialDemos
  /\ srvReviews = InitialReviews
  /\ net = EmptyBag
  /\ ev = Ev("act", "")
  /\ burst = NoBurst
  /\ deleted = {}
  /\ user = NoUser
  /\ loading = TRUE
  /\ storage \in {NoAuth, [token |-> "tok", user |-> NoUser], [token |-> "tok", user |-> SavedUser]}
  /\ location \in [path : {"/", "/login"}, token : BOOLEAN, pending : {TRUE}]
  /\ failed = {}
  /\ retried = {}

NextAuth ==
  \/ AuthLocationEffect
  \/ \E r \in BagToSet(net) : fetchUserOk(r)
  \/ \E r \in BagToSet(net) : fetchUserFail(r)
  \/ \E r \in BagToSet(net) : logoutSettles(r)
  \/ \E path \in {"/", "/login"} : AuthNavigate(path)
  \/ AuthLogoutClick

SpecAuth == InitAuth /\ [][NextAuth]_vars

\* the lists GET /demo/history and GET /self-review/history can answer with:
\* up to MaxHistory entries, each created a week ago or today
HistoryLists ==
  UNION { { [i \in 1..n |-> [id |-> i, created_at |-> ToISO(d[i])]] : d \in [1..n -> {"d1", "d2"}] }
          : n \in 0..MaxHistory }

\* HistoryPage's loadHistory and filter from the mount of the page, over the
\* histories the backend may hold (Spec has the deletes, on one history)
InitHistory ==
  /\ page = "history"
  /\ projects = Fresh(page).projects
  /\ sprints = Fresh(page).sprints
  /\ selectedProject = Fresh(page).selectedProject
  /\ selectedSprint = Fresh(page).selectedSprint
  /\ dateRange = Fresh(page).dateRange
  /\ useSprintRange = Fresh(page).useSprintRange
  /\ metrics = Fresh(page).metrics
  /\ isLoading = Fresh(page).isLoading
  /\ isGenerating = Fresh(page).isGenerating
  /\ error = Fresh(page).error
  /\ result = Fresh(page).result
  /\ template = Fresh(page).template
  /\ isLoadingTemplate = Fresh(page).isLoadingTemplate
  /\ numSprints = Fresh(page).numSprints
  /\ sprintData = Fresh(page).sprintData
  /\ currentSprint = Fresh(page).currentSprint
  /\ activeFilter = Fresh(page).activeFilter
  /\ history = Fresh(page).history
  /\ message = Fresh(page).message
  /\ busy = Fresh(page).busy
  /\ timers = Fresh(page).timers
  /\ settings = [jira_connected |-> FALSE]
  /\ srvJira = TRUE
  /\ srvDemos \in HistoryLists
  /\ srvReviews \in HistoryLists
  /\ net = MountRequests(page)
  /\ ev = Ev("act", "")
  /\ burst = NoBurst
  /\ deleted = {}
  /\ user = SavedUser
  /\ loading = FALSE
  /\ storage = [token |-> "tok", user |-> SavedUser]
  /\ location = [path |-> "/", token |-> FALSE, pending |-> FALSE]
  /\ failed = {}
  /\ retried = {}

NextHistory ==
  \/ \E r \in BagToSet(net) : loadSettingsOk(r)
  \/ \E r \in BagToSet(net) : loadSettingsFail(r)
  \/ \E r \in BagToSet(net), part \in {"demos", "reviews"} : historyPartOk(r, part)
  \/ \E r \in BagToSet(net), part \in {"demos", "reviews"} : historyPartFail(r, part)
  \/ HistoryRefresh
  \/ \E f \in {"all", "demos", "reviews"} : HistorySetFilter(f)

SpecHistory == InitHistory /\ [][NextHistory]_vars

(* -------------------------------- claims ------------------------------ *)
\* how many previews the bag b holds
PreviewCount(b) ==
  LET S == { r \in BagToSet(b) : r.kind = "preview" } IN BagCardinality([r \in S |-> b[r]])

\* C1: every preview response that resolves with data replaces the metrics
\* shown, whether or not a preview issued after it was answered before it, so
\* the metrics shown once all have resolved are those of the response that
\* resolved last; and a preview leaves the requests in flight only by being
\* answered: none is discarded or cancelled.
C1_LastResolvedWins ==
  [][ /\ (ev'.t = "ok" /\ ev'.k = "preview") => metrics' = ev'.m
      /\ PreviewCount(net') < PreviewCount(net)
           => ev'.k = "preview" /\ ev'.t \in {"ok", "fail"} ]_vars

\* C1 witness: of two previews in flight the one issued first resolved last, no
\* preview is left in flight, and the metrics shown are its metrics
C1_Witness ==
  /\ ev.t = "ok" /\ ev.k = "preview" /\ ev.flag
  /\ InFlight("preview") = {}
  /\ metrics = ev.m
  /\ error = Null

\* the error the mounted page shows, if any
ErrorShown == IF page = "settings" THEN message.type = "error" ELSE error # Null

\* C2 as claimed: after the failure of any request a non-null error message
\* is displayed.
C2_EveryFailureShown == ev.t = "fail" => ErrorShown

\* C2 as amended: after the failure of a request other than loadSprints'
\* and Layout's loadSettings', a non-null error message is displayed.
C2_FailureShown == (ev.t = "fail" /\ ev.k \notin {"sprints", "settings"}) => ErrorShown

\* C2 witness: a preview failed and its message is displayed
C2_Witness ==
  /\ ev.t = "fail" /\ ev.k = "preview"
  /\ error = "Failed to load metrics preview"

\* C3 as claimed: if either request of loadAnalytics fails, the error
\* 'Failed to load analytics data' is shown and neither sprintData nor
\* currentSprint is updated.
C3_EitherFailureShown ==
  [][ (ev'.k = "analytics" /\ (ev'.t = "fail" \/ ev'.flag))
        => /\ error' = "Failed to load analytics data"
           /\ UNCHANGED << sprintData, currentSprint >> ]_vars

\* C3 as amended: if the sprint-performance request fails, the error 'Failed to
\* load analytics data' is shown and neither sprintData nor currentSprint is
\* updated; if only the current-sprint request fails, sprintData is updated from
\* the sprint-performance response, currentSprint becomes null and no error is
\* shown for it.
C3_AnalyticsLoad ==
  [][ /\ (ev'.k = "analytics" /\ ev'.t = "fail")
        => /\ error' = "Failed to load analytics data"
           /\ UNCHANGED << sprintData, currentSprint >>
      /\ (ev'.k = "analytics" /\ ev'.t = "ok")
        => /\ sprintData' # NoSprintData
           /\ currentSprint' = IF ev'.flag THEN NoCurrentSprint
                               ELSE [project_key |-> sprintData'.project_key]
           /\ error' = error ]_vars

\* C3 witness: the current-sprint request failed, the sprint-performance request
\* did not: the data is shown without the current sprint and without an error
C3_Witness ==
  /\ ev.k = "analytics" /\ ev.t = "ok" /\ ev.flag
  /\ sprintData # NoSprintData
  /\ currentSprint = NoCurrentSprint
  /\ error = Null

\* are both dates of the range entered
BothDates == Truthy(dateRange.start) /\ Truthy(dateRange.end)

\* C5 as claimed: once no timer of a sequence of date changes is pending,
\* exactly one preview was issued for the sequence.
C5_ExactlyOnePreview == (burst.on /\ timers = << >>) => burst.n = 1

\* C5 as amended: in date-range mode with a project selected, a sequence of
\* date changes each following the previous one before its timer fires leaves
\* at most one timer pending, the one of the last change, and issues no preview
\* while it is pending; when the last change leaves both dates entered exactly
\* one preview is issued, carrying the last start and end dates as ISO strings;
\* when it leaves a date empty no timer is set and no preview is issued.
C5_Debounce ==
  burst.on =>
    /\ Len(timers) <= 1
    /\ timers # << >> =>
         /\ burst.n = 0
         /\ BothDates
         /\ timers[1].delay = DebounceMs
         /\ timers[1].c.start = dateRange.start /\ timers[1].c.end = dateRange.end
    /\ timers = << >> => burst.n = (IF BothDates THEN 1 ELSE 0)
    /\ burst.n = 1 => /\ burst.start = ToISO(dateRange.start)
                      /\ burst.end = ToISO(dateRange.end)

\* C5 witness: a date change cancelled the timer of the change before it, and
\* the one preview of the sequence was issued with the dates entered last
C5_Witness ==
  /\ burst.on /\ burst.cancelled /\ burst.n = 1
  /\ timers = << >>
  /\ burst.start = ToISO(dateRange.start) /\ burst.end = ToISO(dateRange.end)
  /\ dateRange # InitialDateRange

\* was the generate request r submitted with metrics shown
SubmittedWithMetrics(r) == r.hadMetrics

\* C6 as claimed: on DemoPage and ReviewPage a generate request is submitted
\* only when metrics is non-null, and after it settles exactly one of result and
\* error is shown.
C6_GenerateNeedsMetrics ==
  /\ \A r \in InFlight("generate") : SubmittedWithMetrics(r)
  /\ (ev.k = "generate" /\ ev.t \in {"ok", "fail"}) => ((result # Null) # (error # Null))

\* C6 as amended: on DemoPage a generate request is submitted only when
\* metrics is non-null (ReviewPage asks for a selected project only); when the
\* request succeeds the result is shown, when it fails an error is shown and no
\* result.
C6_Generate ==
  /\ \A r \in InFlight("generate") : r.page = "demo" => SubmittedWithMetrics(r)
  /\ (ev.k = "generate" /\ ev.t = "ok") => result # Null
  /\ (ev.k = "generate" /\ ev.t = "fail") => (error # Null /\ result = Null)

\* C6 witness: a generate request of DemoPage succeeded and its result is shown
C6_Witness ==
  /\ page = "demo"
  /\ ev.k = "generate" /\ ev.t = "ok"
  /\ result # Null /\ error = Null
  /\ metrics # NoMetrics

\* the jira_project_key a request carries
ProjectKeyOf(r) == IF r.kind = "preview" THEN r.jira_project_key ELSE r.body.jira_project_key

\* C8: no demo preview or generate request and no review recommend or generate
\* request in flight carries an empty jira_project_key.
C8_ProjectKeySet ==
  \A r \in BagToSet(net) :
    r.kind \in {"preview", "generate", "recommend"} => ProjectKeyOf(r) \in ProjectKeys

\* C8 witness: a preview and a generate request of DemoPage are in flight
C8_Witness ==
  /\ \E r \in InFlight("preview") : ProjectKeyOf(r) # ""
  /\ \E r \in InFlight("generate") : r.page = "demo" /\ ProjectKeyOf(r) # ""

\* C7: once 'Run Now' is clicked the run-now request is in flight and no error
\* is shown: an error is shown only if the backend request fails.
C7_RunNowSent ==
  (ev.t = "act" /\ ev.k = "runNow")
    => /\ \E r \in InFlight("settingsOp") : r.op = "runNow"
       /\ message.type # "error"

\* the (id, type) pairs on display
Displayed == { [id |-> history[i].id, type |-> history[i].type] : i \in 1..Len(history) }

\* C9: an item whose delete succeeded stays absent from the displayed history
\* until the history is reloaded.
C9_DeletedStaysAbsent == Displayed \cap deleted = {}

\* the entries of list other than the one with the id and the type of item, in order
RECURSIVE AllBut(_, _)
AllBut(list, item) ==
  IF list = << >> THEN << >>
  ELSE IF Head(list).id = item.id /\ Head(list).type = item.type
       THEN AllBut(Tail(list), item)
       ELSE << Head(list) >> \o AllBut(Tail(list), item)

\* C10: a declined confirmation changes nothing; a failed delete leaves history
\* as it is and shows 'Failed to delete item'; a delete that succeeds with no
\* other history or delete request in flight since the click removes exactly the
\* entry with the item's id and type; a demo is deleted through the demo
\* endpoint and a self-review through the self-review endpoint.
C10_DeleteFrame ==
  [][ /\ (ev'.t = "act" /\ ev'.k = "declined")
        => UNCHANGED << layoutVars, net, timers, demoVars, notDemo, burst >>
      /\ (ev'.k = "delete" /\ ev'.t = "fail")
        => /\ history' = history
           /\ error' = "Failed to delete item"
      /\ (ev'.k = "delete" /\ ev'.t = "ok" /\ ev'.flag)
        => /\ history' = AllBut(history, ev'.item)
           /\ ev'.item \in Range(history)
      /\ \A r \in InFlight("delete") :
           r.path = (IF r.item.type = "demo" THEN "/demo/" ELSE "/self-review/")
    ]_vars

\* C10 witness: a delete succeeded alone and left the other entry, which has
\* the same id and the other type, on display
C10_Witness ==
  /\ ev.k = "delete" /\ ev.t = "ok" /\ ev.flag
  /\ Len(history) = 1
  /\ history[1].id = ev.item.id /\ history[1].type # ev.item.type

\* C4: no request is retried: after the current-user request failed, the
\* failure path (logout, navigate to /login, re-run of the location effect)
\* issues no current-user request until a new user action.
C4_NoRetry == retried = {}

\* how many loads of the history the bag b holds
HistoryCount(b) ==
  LET S == { r \in BagToSet(b) : r.kind = "history" } IN BagCardinality([r \in S |-> b[r]])

\* a load of the history with both of its requests awaiting their response
BothPending == [kind |-> "history", demos |-> Pending, reviews |-> Pending]

\* C11: loadHistory sends the demo-history and the self-review-history requests
\* together; when either fails the displayed history is left as it was, also
\* when the other request had succeeded, 'Failed to load history' is shown and
\* isLoading ends false; on HistoryPage the list is replaced by a load only in
\* the step in which the second of its two requests succeeds.
C11_LoadHistoryAllOrNothing ==
  [][ /\ HistoryCount(net') > HistoryCount(net)
        => CopiesIn(BothPending, net') > CopiesIn(BothPending, net)
      /\ (ev'.k = "history" /\ ev'.t = "fail")
        => /\ history' = history
           /\ error' = "Failed to load history"
           /\ isLoading' = FALSE
      /\ (page = "history" /\ history' # history)
        => \/ ev'.k = "delete" /\ ev'.t = "ok"
           \/ /\ ev'.k = "history" /\ ev'.t = "ok"
              /\ isLoading' = FALSE
              /\ \E r \in InFlight("history") :
                   /\ net' = net (-) One(r)
                   /\ (r.demos.st = "ok") # (r.reviews.st = "ok")
    ]_vars

\* C11 witness: a reload failed after one of its two requests had succeeded,
\* and the list loaded before it is still displayed, with the error
C11_Witness ==
  /\ ev.k = "history" /\ ev.t = "fail" /\ ev.flag
  /\ Len(history) = 2
  /\ error = "Failed to load history"
  /\ ~isLoading

\* the place of entry e in the list
IndexOf(list, e) == CHOOSE i \in 1..Len(list) : list[i] = e

\* the types of entry the filter is to show
ShownTypes(filter) ==
  CASE filter = "demos" -> {"demo"}
    [] filter = "reviews" -> {"self_review"}
    [] filter = "all" -> {"demo", "self_review"}

\* the list on display holds exactly the entries of history of the types the
\* active filter is to show, each once, in the order history has them
FilterShows ==
  LET wanted == { h \in Range(history) : h.type \in ShownTypes(activeFilter) }
  IN /\ Range(filteredHistory) = wanted
     /\ Len(filteredHistory) = Cardinality(wanted)
     /\ \A i, j \in 1..Len(filteredHistory) :
          i < j => IndexOf(history, filteredHistory[i]) < IndexOf(history, filteredHistory[j])

\* C12: a successful loadHistory leaves in history every returned demo tagged
\* 'demo' and every returned self-review tagged 'self_review' and nothing else,
\* ordered by created_at from newest to oldest; the filter 'demos' shows exactly
\* the entries of type 'demo', 'reviews' those of type 'self_review' and 'all'
\* every entry, in the order of history.
C12_LoadedHistory ==
  [][ /\ FilterShows'
      /\ (ev'.k = "history" /\ ev'.t = "ok")
        => \E r \in InFlight("history") :
             LET demos == IF r.demos.st = "ok" THEN r.demos.data ELSE srvDemos
                 reviews == IF r.reviews.st = "ok" THEN r.reviews.data ELSE srvReviews
                 entries == { [id |-> demos[i].id, type |-> "demo",
                               created_at |-> demos[i].created_at] : i \in 1..Len(demos) }
                            \cup { [id |-> reviews[i].id, type |-> "self_review",
                                    created_at |-> reviews[i].created_at] : i \in 1..Len(reviews) }
             IN /\ net' = net (-) One(r)
                /\ Range(history') = entries
                /\ Len(history') = Len(demos) + Len(reviews)
                /\ \A i \in 1..(Len(history') - 1) :
                     DateValue(history'[i].created_at) >= DateValue(history'[i + 1].created_at)
    ]_vars

\* C12 witness: a load showed two demos and a self-review, the newest first,
\* the self-review, returned last, leads the list, and the filter 'demos'
\* shows the two demos
C12_Witness ==
  /\ ev.k = "history" /\ ev.t = "ok"
  /\ Len(history) = 3
  /\ history[1].type = "self_review" /\ history[3].type = "demo"
  /\ DateValue(history[1].created_at) > DateValue(history[3].created_at)
  /\ activeFilter = "demos" /\ Len(filteredHistory) = 2

\* are the metrics m those of a preview of the project and the data source
\* selected now: the sprint in sprint mode, the date range in date-range mode
OfSelection(m) ==
  /\ m.jira_project_key = selectedProject
  /\ IF useSprintRange
     THEN m.sprint_id = selectedSprint /\ Truthy(m.sprint_id)
     ELSE /\ m.sprint_id = ""
          /\ m.start_date = ToISO(dateRange.start) /\ m.end_date = ToISO(dateRange.end)

\* C13 as claimed: whenever the Generate button of DemoPage is enabled, the
\* metrics shown are those of a preview made for the project and the data
\* source selected now.
C13_MetricsOfSelection == (page = "demo" /\ ~GenerateDisabled) => OfSelection(metrics)

\* C13 as amended: on DemoPage a project change and a mode toggle clear the
\* metrics, so Generate is disabled right after them; metrics appear only as
\* the data of a preview response; and a preview request issued by a handler
\* or an effect other than the debounce timer is for the project and the data
\* source selected when it is issued.  (The response is shown whatever is
\* selected when it arrives.)
C13_MetricsOfAPreview ==
  [][ page = "demo" =>
        /\ (selectedProject' # selectedProject \/ useSprintRange' # useSprintRange)
             => (metrics' = NoMetrics /\ GenerateDisabled')
        /\ (metrics' # metrics /\ metrics' # NoMetrics)
             => /\ ev'.k = "preview" /\ ev'.t = "ok"
                /\ \E r \in InFlight("preview") : net' = net (-) One(r) /\ metrics' = MetricsOf(r)
        /\ (PreviewCount(net') > PreviewCount(net) /\ Len(timers') >= Len(timers))
             => /\ \E r \in InFlight("preview")' : ~r.superseded
                /\ \A r \in InFlight("preview")' : ~r.superseded => OfSelection(MetricsOf(r))'
    ]_vars

\* C13 witness: Generate is enabled in date-range mode next to the metrics of
\* a sprint, whose preview was answered after the mode toggle
C13_Witness ==
  /\ page = "demo" /\ ~GenerateDisabled
  /\ ~useSprintRange
  /\ Truthy(metrics.sprint_id)
  /\ ev.k = "preview" /\ ev.t = "ok"

\* is list the closed and active sprints the backend holds for project p, each
\* once, the one that ended (or, with no end, started) last first
ShownSprintsOf(list, p) ==
  LET shown == { s \in Range(BackendSprints(p)) : s.state \in {"closed", "active"} }
  IN /\ Range(list) = shown
     /\ Len(list) = Cardinality(shown)
     /\ \A i \in 1..(Len(list) - 1) : SprintSortKey(list[i]) >= SprintSortKey(list[i + 1])

\* C14 as claimed: once all sprint requests have settled, the sprints offered,
\* if any, are those returned for the project selected now.
C14_SprintsOfSelectedProject ==
  (page = "demo" /\ Truthy(selectedProject) /\ InFlight("sprints") = {})
    => (sprints = << >> \/ ShownSprintsOf(sprints, selectedProject))

\* C14 as amended: a project change issues a sprint request for the new
\* project and leaves the list offered as it is; each sprint response that
\* succeeds replaces the list by the closed and active sprints of the project
\* it was requested for, whichever project is selected when it arrives; a
\* failed request leaves the list as it is; nothing else changes the list.
C14_SprintsOfLastResponse ==
  [][ page = "demo" =>
        /\ selectedProject' # selectedProject
             => /\ sprints' = sprints
                /\ [kind |-> "sprints", project |-> selectedProject'] \in InFlight("sprints")'
        /\ (ev'.k = "sprints" /\ ev'.t = "ok")
             => \E r \in InFlight("sprints") :
                  net' = net (-) One(r) /\ ShownSprintsOf(sprints', r.project)
        /\ (ev'.k = "sprints" /\ ev'.t = "fail") => sprints' = sprints
        /\ sprints' # sprints => (ev'.k = "sprints" /\ ev'.t = "ok")
    ]_vars

\* C14 witness: all sprint requests have settled, the one of the project
\* selected before resolved last, and its sprints are offered with the new one
C14_Witness ==
  /\ page = "demo" /\ InFlight("sprints") = {}
  /\ ev.k = "sprints" /\ ev.t = "ok"
  /\ selectedProject = "P2"
  /\ ShownSprintsOf(sprints, "P1") /\ ~ShownSprintsOf(sprints, "P2")

\* the project and the data source selected on DemoPage
Selection ==
  << selectedProject, useSprintRange, IF useSprintRange THEN << selectedSprint >> ELSE << dateRange >> >>

\* a project and a complete data source are selected
CompleteSelection ==
  Truthy(selectedProject) /\ (IF useSprintRange THEN Truthy(selectedSprint) ELSE BothDates)

\* a preview of the selection is in flight, or a debounce timer is about to ask for it
PreviewUnderWay ==
  \/ \E r \in InFlight("preview") : OfSelection(MetricsOf(r))
  \/ \E i \in 1..Len(timers) :
       /\ ~PreviewReturns(timers[i].c)
       /\ OfSelection(MetricsOf(PreviewRequest(timers[i].c)))

\* C15: every project change, sprint selection, date change or mode toggle
\* that leaves a project and a complete data source selected has the preview
\* of that selection issued or its debounce timer set, so that the preview
\* comes without the user pressing Refresh.  (No effect runs later on its own:
\* what the step of the change does not start, only a further click starts.)
C15_PreviewFollowsSelection ==
  [][ (page = "demo" /\ Selection' # Selection /\ CompleteSelection') => PreviewUnderWay' ]_vars

\* the generate requests of DemoPage in flight
DemoGenerates == { r \in InFlight("generate") : r.page = "demo" }

\* C16: every generate request of DemoPage carries jira_project_key and
\* exactly one of sprint_id and date_range; one sent in sprint mode carries the
\* selected sprint as an integer, one sent in date-range mode carries the date
\* range as two ISO strings, also when a sprint is still selected.
C16_OneDataSource ==
  [][ \A r \in DemoGenerates' :
        /\ r.body.jira_project_key \in ProjectKeys
        /\ \/ DOMAIN r.body = {"jira_project_key", "sprint_id"}
           \/ DOMAIN r.body = {"jira_project_key", "date_range"}
        /\ CopiesIn(r, net') > CopiesIn(r, net)
             => /\ r.body.jira_project_key = selectedProject
                /\ IF useSprintRange
                   THEN /\ DOMAIN r.body = {"jira_project_key", "sprint_id"}
                        /\ r.body.sprint_id \in Int
                        /\ IdString(r.body.sprint_id) = selectedSprint
                   ELSE /\ DOMAIN r.body = {"jira_project_key", "date_range"}
                        /\ r.body.date_range = [start |-> dateRange.start \o IsoSuffix,
                                                 end |-> dateRange.end \o IsoSuffix]
                        /\ BothDates
    ]_vars

\* C16 witness: a generate request sent in date-range mode with a sprint still
\* selected is in flight, and it carries the date range
C16_Witness ==
  /\ page = "demo" /\ ~useSprintRange /\ Truthy(selectedSprint)
  /\ ev.t = "act" /\ isGenerating
  /\ \E r \in DemoGenerates : "date_range" \in DOMAIN r.body

\* how many previews of the kind of path the bag b holds
PathCount(b, path) ==
  LET S == { r \in BagToSet(b) : r.kind = "preview" /\ r.path = path }
  IN BagCardinality([r \in S |-> b[r]])

\* C17: in sprint mode the selection of another sprint issues exactly one
\* preview request, a preview by sprint for the selected project and the new
\* sprint; the update of dateRange that comes with it issues no date-range
\* preview and sets no timer for one; a project change clears the selected
\* sprint and the metrics and issues no preview request.
C17_SprintSelectPreviews ==
  [][ page = "demo" =>
        /\ (useSprintRange /\ selectedSprint' # selectedSprint /\ Truthy(selectedSprint'))
             => /\ PathCount(net', "/demo/preview/sprint") = PathCount(net, "/demo/preview/sprint") + 1
                /\ PathCount(net', "/demo/preview") = PathCount(net, "/demo/preview")
                /\ \A r \in InFlight("preview")' :
                     ~r.superseded => r = previewBySprint(selectedProject, selectedSprint')
                /\ timers' = << >>
        /\ selectedProject' # selectedProject
             => /\ selectedSprint' = "" /\ metrics' = NoMetrics
                /\ PreviewCount(net') = PreviewCount(net)
                /\ timers' = timers
    ]_vars

\* C17 witness: the selection of sprint 1 replaced the date range by the
\* sprint's dates; its preview by sprint is the one request in flight and no
\* timer is pending
C17_Witness ==
  /\ page = "demo" /\ useSprintRange
  /\ ev.k = "sprintSelect" /\ ev.flag
  /\ selectedSprint = "1" /\ dateRange = [start |-> "d1", end |-> "d2"]
  /\ net = One(previewBySprint(selectedProject, "1"))
  /\ timers = << >>

====
